---- MODULE Spec2Model ----
(***************************************************************************)
(* A model of are-we-millionaires: check_euromillions.py (the draw-check   *)
(* run and its pure helpers) and send_ticket_image.py (the ticket-data     *)
(* extraction and the ticket message).                                     *)
(*                                                                         *)
(* Text.  A Python str is a sequence of chunks (TLA+ strings) whose        *)
(* concatenation is the str.  Number strings ("07", "12") are sequences of *)
(* one-character chunks, so int(), str(), strip() and split() are computed *)
(* character by character.  Fixed labels are single chunks (the emoji of   *)
(* the labels are left out of the chunks).                                 *)
(***************************************************************************)
EXTENDS Integers, Sequences, FiniteSets, TLC

VARIABLES
    pc,            \* position of the running program / of the applied function
    environ,       \* os.environ of the draw-check run
    my_numbers,    \* main(): my_numbers
    my_stars,      \* main(): my_stars
    draw,          \* main(): draw (the fetched draw)
    matched,       \* main(): <<matched_numbers, matched_stars>>
    prize,         \* main(): <<prize_amount, winners>>
    message,       \* main(): message (both programs)
    printed,       \* the error the run ended with, <<>> when none
    sent,          \* whether send_telegram_message was called
    call,          \* the pure function applied and its arguments
    result,        \* what the applied function returned
    html_content,  \* send_ticket_image main(): html_content
    data           \* extract_ticket_data(): data / main(): ticket_data

vars == <<pc, environ, my_numbers, my_stars, draw, matched, prize, message,
          printed, sent, call, result, html_content, data>>

\* An optional value (None, or a dict key that is absent): <<>>, else <<value>>
None == <<>>
Some(v) == <<v>>

-----------------------------------------------------------------------------
(* Bounds of the model.                                                    *)

MaxLen == 2       \* longest list handed to calculate_matches / format_message
MaxPrizes == 2    \* longest prize table handed to find_prize
MaxExtra == 1     \* how far the configured counts may be off the expected ones
MaxBlocks == 3    \* most runs of cells a document of cells is made of
MaxRun == 5       \* longest run of cells of one kind (runs hold 1, 2 or MaxRun cells)
MaxFields == 2    \* longest document made of arbitrary tokens
MaxStarLen == 1   \* longest star list handed to format_message

-----------------------------------------------------------------------------
(* Characters and the str <-> int conversions.                             *)

Digits == <<"0", "1", "2", "3", "4", "5", "6", "7", "8", "9">>

IsDigit(c) == \E d \in 1..10 : Digits[d] = c

DigitVal(c) == (CHOOSE d \in 1..10 : Digits[d] = c) - 1

Range(s) == {s[i] : i \in 1..Len(s)}

RECURSIVE LStrip(_)
LStrip(s) == IF s # <<>> /\ Head(s) = " " THEN LStrip(Tail(s)) ELSE s

RECURSIVE RStrip(_)
RStrip(s) ==
    IF s # <<>> /\ s[Len(s)] = " " THEN RStrip(SubSeq(s, 1, Len(s) - 1)) ELSE s

\* str.strip()
Strip(s) == RStrip(LStrip(s))

\* int(s) succeeds (for the characters of the model: digits, blanks, letters)
ValidInt(s) == Strip(s) # <<>> /\ \A i \in 1..Len(Strip(s)) : IsDigit(Strip(s)[i])

RECURSIVE IntAcc(_, _)
IntAcc(s, acc) ==
    IF s = <<>> THEN acc ELSE IntAcc(Tail(s), 10 * acc + DigitVal(Head(s)))

\* int(s), for ValidInt(s)
IntOf(s) == IntAcc(Strip(s), 0)

RECURSIVE StrOf(_)
\* str(n), n >= 0
StrOf(n) ==
    IF n < 10 THEN <<Digits[n + 1]>>
    ELSE StrOf(n \div 10) \o <<Digits[(n % 10) + 1]>>

RECURSIVE SplitAcc(_, _, _, _)
SplitAcc(s, sep, cur, out) ==
    IF s = <<>> THEN Append(out, cur)
    ELSE IF Head(s) = sep THEN SplitAcc(Tail(s), sep, <<>>, Append(out, cur))
    ELSE SplitAcc(Tail(s), sep, Append(cur, Head(s)), out)

\* s.split(sep): "" splits into [""]
Split(s, sep) == SplitAcc(s, sep, <<>>, <<>>)

RECURSIVE Join(_, _)
\* sep.join(parts)
Join(parts, sep) ==
    IF parts = <<>> THEN <<>>
    ELSE IF Len(parts) = 1 THEN parts[1]
    ELSE parts[1] \o sep \o Join(Tail(parts), sep)

\* the sequences over S of length 0..n
SeqsUpTo(S, n) == UNION {[1..k -> S] : k \in 0..n}

-----------------------------------------------------------------------------
(* check_euromillions.py: the pure helpers.                                *)

CountWithRepeats(mine, winning) ==
    Cardinality({i \in 1..Len(mine) : mine[i] \in Range(winning)})

\* a count of the chosen entries (not of the distinct values) that win
calculate_matches_counting(nums, stars, winning_numbers, winning_stars) ==
    <<CountWithRepeats(nums, winning_numbers), CountWithRepeats(stars, winning_stars)>>

calculate_matches(nums, stars, winning_numbers, winning_stars) ==
    LET my_numbers_set == Range(nums)
        my_stars_set == Range(stars)
        winning_numbers_set == Range(winning_numbers)
        winning_stars_set == Range(winning_stars)
    IN  <<Cardinality(my_numbers_set \cap winning_numbers_set),
          Cardinality(my_stars_set \cap winning_stars_set)>>

RECURSIVE find_prize_last(_, _, _)
find_prize_last(prizes, matched_numbers, matched_stars) ==
    IF prizes = <<>> THEN <<0, 0>>
    ELSE LET p == prizes[Len(prizes)] IN
         IF p.matched_numbers = matched_numbers /\ p.matched_stars = matched_stars
         THEN <<p.prize, p.winners>>
         ELSE find_prize_last(SubSeq(prizes, 1, Len(prizes) - 1),
                              matched_numbers, matched_stars)

RECURSIVE find_prize(_, _, _)
find_prize(prizes, matched_numbers, matched_stars) ==
    IF prizes = <<>> THEN <<0, 0>>
    ELSE LET p == Head(prizes) IN
         IF p.matched_numbers = matched_numbers /\ p.matched_stars = matched_stars
         THEN <<p.prize, p.winners>>
         ELSE find_prize(Tail(prizes), matched_numbers, matched_stars)

\* d.get(key, default)
Get(d, key, default) == IF d[key] = None THEN default ELSE d[key][1]

RECURSIVE DisplayReversed(_, _)
DisplayReversed(mine, winning) ==
    IF mine = <<>> THEN <<>>
    ELSE Append(DisplayReversed(Tail(mine), winning),
                IF Head(mine) \in Range(winning)
                THEN <<"[">> \o Head(mine) \o <<"]">> ELSE Head(mine))

RECURSIVE Display(_, _)
\* the loops building my_nums_display / my_stars_display
Display(mine, winning) ==
    IF mine = <<>> THEN <<>>
    ELSE <<IF Head(mine) \in Range(winning)
           THEN <<"[">> \o Head(mine) \o <<"]">> ELSE Head(mine)>>
         \o Display(Tail(mine), winning)

RECURSIVE Grouped(_)
\* the integer part of f"{x:,.2f}": groups of three digits
Grouped(n) ==
    IF n < 1000 THEN StrOf(n)
    ELSE LET r == n % 1000
             pad == IF r < 10 THEN <<"0", "0">> ELSE IF r < 100 THEN <<"0">> ELSE <<>>
         IN  Grouped(n \div 1000) \o <<",">> \o pad \o StrOf(r)

\* f"{prize_amount:,.2f}" of a whole amount
Currency(n) == Grouped(n) \o <<".", "0", "0">>

\* format_message(draw, my_numbers, my_stars, matched_numbers, matched_stars,
\*                prize_amount, winners): the list `lines`
format_lines(d, nums, stars, matched_numbers, matched_stars, prize_amount, winners) ==
    LET winning_numbers == d.numbers
        winning_stars == d.stars
        has_jackpot_winner == Get(d, "has_winner", FALSE)
        my_nums_display == Display(nums, winning_numbers)
        my_stars_display == Display(stars, winning_stars)
        head == << <<"*Euromillions Result - ">> \o d.date \o <<"*">>,
                   <<>>,
                   <<"*Winning combination:*">>,
                   <<"   Numbers: ">> \o Join(winning_numbers, <<" - ">>),
                   <<"   Stars: ">> \o Join(winning_stars, <<" - ">>),
                   <<>>,
                   <<"*Your combination:*">>,
                   <<"   Numbers: ">> \o Join(my_nums_display, <<" - ">>),
                   <<"   Stars: ">> \o Join(my_stars_display, <<" - ">>),
                   <<>>,
                   <<"*Results:*">>,
                   <<"   Matched numbers: ">> \o StrOf(matched_numbers) \o <<"/5">>,
                   <<"   Matched stars: ">> \o StrOf(matched_stars) \o <<"/2">> >>
        won == IF prize_amount > 0
               THEN << <<>>,
                       <<"*YOU WON!*">>,
                       <<"   Prize: EUR">> \o Currency(prize_amount),
                       <<"   Winners in this category: ">> \o StrOf(winners) >>
               ELSE << <<>>,
                       <<"No prize this time loosers, you are still poor">> >>
        jackpot == IF matched_numbers = 5 /\ matched_stars = 2
                   THEN << <<>>, <<"*JACKPOT!!! YOU ARE A MILLIONAIRE!!!*">> >>
                   ELSE <<>>
        note == IF has_jackpot_winner
                THEN << <<"\n", "This draw had a jackpot winner!">> >>
                ELSE <<>>
        foot == << <<"official results: https://www.loteriasyapuestas.es/es/resultados">> >>
    IN  head \o won \o jackpot \o note \o foot

\* format_message(...): "\n".join(lines)
format_message(d, nums, stars, matched_numbers, matched_stars, prize_amount, winners) ==
    Join(format_lines(d, nums, stars, matched_numbers, matched_stars, prize_amount,
                      winners), <<"\n">>)

\* text.split("\n"): the lines of a message
LinesOf(text) == Split(text, "\n")

-----------------------------------------------------------------------------
(* The pure helpers applied to arguments drawn from bounded sets.          *)

FnStrs == {<<"0", "7">>, <<"1", "2">>}

FnLists == SeqsUpTo(FnStrs, MaxLen)

\* the star lists handed to format_message
FnStarLists == SeqsUpTo(FnStrs, MaxStarLen)

FnDate == <<"2026-01-23">>

Tiers ==
    {[matched_numbers |-> k[1], matched_stars |-> k[2], prize |-> a[1], winners |-> a[2]] :
        k \in {<<1, 0>>, <<2, 1>>}, a \in {<<10, 3>>, <<2500, 1>>}}

Keys == {<<1, 0>>, <<2, 1>>, <<0, 0>>}

FmtOpts ==
    {[mn |-> 0, ms |-> 0, prize |-> 0, winners |-> 0, hw |-> None],
     [mn |-> 1, ms |-> 1, prize |-> 10, winners |-> 3, hw |-> Some(FALSE)],
     [mn |-> 5, ms |-> 2, prize |-> 1234567, winners |-> 1, hw |-> Some(TRUE)]}

CallsCalc ==
    {[fn |-> "calculate_matches", args |-> <<n, s, wn, ws>>] :
        n \in FnLists, s \in FnLists, wn \in FnLists, ws \in FnLists}

CallsPrize ==
    {[fn |-> "find_prize", args |-> <<t, k[1], k[2]>>] :
        t \in SeqsUpTo(Tiers, MaxPrizes), k \in Keys}

CallsFormat ==
    {[fn |-> "format_message",
      args |-> <<[date |-> FnDate, numbers |-> wn, stars |-> ws,
                  has_winner |-> o.hw, prizes |-> None],
                 n, s, o.mn, o.ms, o.prize, o.winners>>] :
        n \in FnLists, s \in FnStarLists, wn \in FnLists, ws \in FnStarLists,
        o \in FmtOpts}

NoCall == [fn |-> "", args |-> <<>>]
NoDraw == [date |-> <<>>, numbers |-> <<>>, stars |-> <<>>, has_winner |-> None,
           prizes |-> None]
NoEnv == [token |-> FALSE, chat |-> FALSE, MY_NUMBERS |-> <<>>, MY_STARS |-> <<>>]
\* lines 59-69: the dict extract_ticket_data starts from
NoData == [numbers |-> <<>>, stars |-> <<>>, millon_code |-> None, millon_date |-> None,
           draw_date |-> None, price |-> None, bet_count |-> <<"1">>, balance |-> None,
           reference |-> None]

\* the variables of the two programs, untouched while a helper is applied
IdleRun ==
    /\ environ = NoEnv /\ my_numbers = <<>> /\ my_stars = <<>> /\ draw = NoDraw
    /\ matched = <<0, 0>> /\ prize = <<0, 0>> /\ message = <<>> /\ printed = <<>>
    /\ sent = FALSE
IdleTicket == html_content = <<>> /\ data = NoData
IdleFn == call = NoCall /\ result = None

InitFn ==
    /\ pc = "call"
    /\ call \in CallsCalc \cup CallsPrize \cup CallsFormat
    /\ result = None
    /\ IdleRun /\ IdleTicket

Return(value) ==
    /\ pc = "call"
    /\ pc' = "returned"
    /\ result' = value
    /\ UNCHANGED <<environ, my_numbers, my_stars, draw, matched, prize, message,
                   printed, sent, call, html_content, data>>

CallCalculateMatches ==
    /\ call.fn = "calculate_matches"
    /\ Return(calculate_matches(call.args[1], call.args[2], call.args[3], call.args[4]))

CallFindPrize ==
    /\ call.fn = "find_prize"
    /\ Return(find_prize(call.args[1], call.args[2], call.args[3]))

CallFormatMessage ==
    /\ call.fn = "format_message"
    /\ Return(format_message(call.args[1], call.args[2], call.args[3], call.args[4],
                             call.args[5], call.args[6], call.args[7]))

NextFn == CallCalculateMatches \/ CallFindPrize \/ CallFormatMessage

SpecFn == InitFn /\ [][NextFn]_vars

-----------------------------------------------------------------------------
(* Claims on the pure helpers, checked under SpecFn.                       *)

Returned(fn) == pc = "returned" /\ call.fn = fn

\* the values that occur both in `mine` and in `winning`, each counted once
Common(mine, winning) ==
    {v \in FnStrs : (\E i \in 1..Len(mine) : mine[i] = v)
                    /\ (\E j \in 1..Len(winning) : winning[j] = v)}

\* C1: calculate_matches returns the sizes of the intersections of the chosen
\* and the winning numbers, and of the chosen and the winning stars, as sets:
\* the counts lie in 0..5 and 0..2, and repeating a value on either side
\* never changes a count.
C1_MatchesAreSetIntersections ==
    Returned("calculate_matches") =>
        LET n == call.args[1]
            s == call.args[2]
            wn == call.args[3]
            ws == call.args[4]
        IN  /\ result[1] = Cardinality(Common(n, wn))
            /\ result[2] = Cardinality(Common(s, ws))
            /\ result[1] \in 0..5 /\ result[2] \in 0..2
            /\ \A i \in 1..Len(n) :
                   calculate_matches(Append(n, n[i]), s, wn, ws) = result
            /\ \A i \in 1..Len(wn) :
                   calculate_matches(n, s, Append(wn, wn[i]), ws) = result
            /\ \A i \in 1..Len(s) :
                   calculate_matches(n, Append(s, s[i]), wn, ws) = result
            /\ \A i \in 1..Len(ws) :
                   calculate_matches(n, s, wn, Append(ws, ws[i])) = result

\* a chosen number repeated, and winning: it counts once
C1_Witness ==
    /\ Returned("calculate_matches")
    /\ Len(call.args[1]) = 2 /\ call.args[1][1] = call.args[1][2]
    /\ call.args[1][1] \in Range(call.args[3])
    /\ result[1] = 1

\* C2: find_prize returns the (prize, winners) of the first tier in table
\* order whose key is the matched pair, and (0, 0) when no tier has that key
\* (the empty table included).
C2_FirstTierOrZero ==
    Returned("find_prize") =>
        LET t == call.args[1]
            hits == {i \in 1..Len(t) : /\ t[i].matched_numbers = call.args[2]
                                       /\ t[i].matched_stars = call.args[3]}
        IN  IF hits = {} THEN result = <<0, 0>>
            ELSE LET first == CHOOSE i \in hits : \A j \in hits : i <= j
                 IN  result = <<t[first].prize, t[first].winners>>

\* two tiers with the matched key and different prizes: the first one is returned
C2_Witness ==
    /\ Returned("find_prize")
    /\ Len(call.args[1]) = 2
    /\ call.args[1][1].matched_numbers = call.args[2]
    /\ call.args[1][2].matched_numbers = call.args[2]
    /\ call.args[1][1].matched_stars = call.args[3]
    /\ call.args[1][2].matched_stars = call.args[3]
    /\ call.args[1][1].prize # call.args[1][2].prize
    /\ result = <<call.args[1][1].prize, call.args[1][1].winners>>

\* the chosen values as the message must show them: in the given order, in
\* brackets exactly when the value is one of `winning`
Shown(mine, winning) ==
    [i \in 1..Len(mine) |->
        IF \E j \in 1..Len(winning) : winning[j] = mine[i]
        THEN <<"[">> \o mine[i] \o <<"]">> ELSE mine[i]]

\* C6: format_message shows the chosen numbers in their given order, each in
\* brackets iff it is one of the winning numbers, and the chosen stars in
\* their given order, each in brackets iff it is one of the winning stars.
C6_BracketsIffWinning ==
    Returned("format_message") =>
        LET d == call.args[1]
            lines == LinesOf(result)
        IN  /\ lines[8] = <<"   Numbers: ">>
                          \o Join(Shown(call.args[2], d.numbers), <<" - ">>)
            /\ lines[9] = <<"   Stars: ">>
                          \o Join(Shown(call.args[3], d.stars), <<" - ">>)

\* one chosen number wins and one does not; a chosen star is a winning number
\* but no winning star, and is shown without brackets
C6_Witness ==
    /\ Returned("format_message")
    /\ Len(call.args[2]) = 2
    /\ call.args[2][1] \notin Range(call.args[1].numbers)
    /\ call.args[2][2] \in Range(call.args[1].numbers)
    /\ Len(call.args[3]) = 1
    /\ call.args[3][1] \in Range(call.args[1].numbers)
    /\ call.args[3][1] \notin Range(call.args[1].stars)
    /\ LinesOf(result)[9] = <<"   Stars: ">> \o call.args[3][1]

-----------------------------------------------------------------------------
(* check_euromillions.py: main(), the draw-check run.                      *)

ExpectedNumbers == 5
ExpectedStars == 2

\* [str(int(n.strip())) for n in text.split(",")], for tokens int() accepts
ParseList(text) ==
    LET tokens == Split(text, ",")
    IN  [i \in 1..Len(tokens) |-> StrOf(IntOf(tokens[i]))]

\* int() raises ValueError on one of the tokens
ParseRaises(text) == \E i \in 1..Len(Split(text, ",")) : ~ValidInt(Split(text, ",")[i])

\* a validation that lets a longer list through
NumbersOkAtLeast(nums) == Len(nums) >= ExpectedNumbers

\* len(my_numbers) != 5 is the error
NumbersOk(nums) == Len(nums) = ExpectedNumbers

\* len(my_stars) != 2 is the error
StarsOk(stars) == Len(stars) = ExpectedStars

RunUnchanged(keep) ==
    /\ UNCHANGED keep
    /\ UNCHANGED <<environ, call, result, html_content, data>>

Exit(text) == pc' = "exit" /\ printed' = text

\* lines 133-136: every variable must be set and non-empty
CheckEnv ==
    /\ pc = "env"
    /\ IF environ.token /\ environ.chat /\ environ.MY_NUMBERS # <<>>
          /\ environ.MY_STARS # <<>>
       THEN pc' = "parse" /\ UNCHANGED printed
       ELSE Exit(<<"Error: Missing required environment variables">>)
    /\ RunUnchanged(<<my_numbers, my_stars, draw, matched, prize, message, sent>>)

\* lines 139-140
ParseCombination ==
    /\ pc = "parse"
    /\ IF ParseRaises(environ.MY_NUMBERS) \/ ParseRaises(environ.MY_STARS)
       THEN /\ Exit(<<"ValueError: invalid literal for int() with base 10">>)
            /\ UNCHANGED <<my_numbers, my_stars>>
       ELSE /\ my_numbers' = ParseList(environ.MY_NUMBERS)
            /\ my_stars' = ParseList(environ.MY_STARS)
            /\ pc' = "validate"
            /\ UNCHANGED printed
    /\ RunUnchanged(<<draw, matched, prize, message, sent>>)

\* lines 142-147
ValidateCombination ==
    /\ pc = "validate"
    /\ IF ~NumbersOk(my_numbers)
       THEN Exit(<<"Error: Expected 5 numbers, got ">> \o StrOf(Len(my_numbers)))
       ELSE IF ~StarsOk(my_stars)
       THEN Exit(<<"Error: Expected 2 stars, got ">> \o StrOf(Len(my_stars)))
       ELSE pc' = "fetch" /\ UNCHANGED printed
    /\ RunUnchanged(<<my_numbers, my_stars, draw, matched, prize, message, sent>>)

\* the set S as the increasing sequence of its elements
RECURSIVE Sorted(_)
Sorted(S) ==
    IF S = {} THEN <<>>
    ELSE LET m == CHOOSE x \in S : \A y \in S : x <= y
         IN  <<m>> \o Sorted(S \ {m})

\* the two-digit string of a draw's number
TwoDigits(v) == IF v < 10 THEN <<"0">> \o StrOf(v) ELSE StrOf(v)

NumberPool == {3, 7, 12, 19, 20, 41}
StarPool == {2, 9, 11}

RunTiers ==
    <<[matched_numbers |-> 3, matched_stars |-> 1, prize |-> 12, winners |-> 90000],
      [matched_numbers |-> 4, matched_stars |-> 1, prize |-> 150, winners |-> 1200],
      [matched_numbers |-> 3, matched_stars |-> 0, prize |-> 9, winners |-> 200000],
      [matched_numbers |-> 4, matched_stars |-> 0, prize |-> 60, winners |-> 2500]>>

\* what the API may answer: five two-digit numbers, two two-digit stars, the
\* optional keys has_winner and prizes
Draws ==
    {[date |-> <<"2026-01-23">>,
      numbers |-> [i \in 1..ExpectedNumbers |-> TwoDigits(Sorted(N)[i])],
      stars |-> [i \in 1..ExpectedStars |-> TwoDigits(Sorted(S)[i])],
      has_winner |-> h, prizes |-> p] :
        N \in {X \in SUBSET NumberPool : Cardinality(X) = ExpectedNumbers},
        S \in {X \in SUBSET StarPool : Cardinality(X) = ExpectedStars},
        h \in {None, Some(TRUE)},
        p \in {None, Some(RunTiers)}}

\* line 154: fetch_latest_draw() returns the latest draw, or raises
FetchLatestDraw ==
    /\ pc = "fetch"
    /\ \/ \E d \in Draws : draw' = d /\ pc' = "match" /\ UNCHANGED printed
       \/ Exit(<<"URLError">>) /\ UNCHANGED draw
    /\ RunUnchanged(<<my_numbers, my_stars, matched, prize, message, sent>>)

\* lines 160-163
CalculateMatches ==
    /\ pc = "match"
    /\ matched' = calculate_matches(my_numbers, my_stars, draw.numbers, draw.stars)
    /\ pc' = "prize"
    /\ RunUnchanged(<<my_numbers, my_stars, draw, prize, message, printed, sent>>)

\* line 167
FindPrize ==
    /\ pc = "prize"
    /\ prize' = find_prize(Get(draw, "prizes", <<>>), matched[1], matched[2])
    /\ pc' = "format"
    /\ RunUnchanged(<<my_numbers, my_stars, draw, matched, message, printed, sent>>)

\* lines 171-175
FormatMessage ==
    /\ pc = "format"
    /\ message' = format_message(draw, my_numbers, my_stars, matched[1], matched[2],
                                 prize[1], prize[2])
    /\ pc' = "send"
    /\ RunUnchanged(<<my_numbers, my_stars, draw, matched, prize, printed, sent>>)

\* lines 178-184: the Bot API answers ok or not ok
SendTelegramMessage ==
    /\ pc = "send"
    /\ sent' = TRUE
    /\ \/ pc' = "done" /\ UNCHANGED printed
       \/ Exit(<<"Failed to send message">>)
    /\ RunUnchanged(<<my_numbers, my_stars, draw, matched, prize, message>>)

\* how the configured values are written: "7", "07", or " 7" (as in "3, 7")
Formats == {"plain", "padded", "spaced"}

Written(fmt, v) ==
    IF fmt = "padded" THEN TwoDigits(v)
    ELSE IF fmt = "spaced" THEN <<" ">> \o StrOf(v)
    ELSE StrOf(v)

\* the comma-separated text of the values of S, in increasing order
Configured(fmt, S) == Join([i \in 1..Cardinality(S) |-> Written(fmt, Sorted(S)[i])], <<",">>)

Counts(expected) == {n \in 0..(expected + MaxExtra) : n >= expected - MaxExtra}

\* the MY_NUMBERS / MY_STARS texts of the model: unset, well formed with a
\* count near the expected one, or with a trailing comma
Texts(fmt, pool, expected) ==
    LET sets == {X \in SUBSET pool : Cardinality(X) \in Counts(expected)}
    IN  {<<>>} \cup {Configured(fmt, X) : X \in sets \ {{}}}
        \cup {Configured(fmt, X) \o <<",">> : X \in {Y \in sets : Cardinality(Y) = expected}}

Environs ==
    {[token |-> c[1], chat |-> c[2], MY_NUMBERS |-> n, MY_STARS |-> s] :
        c \in {<<TRUE, TRUE>>, <<FALSE, TRUE>>, <<TRUE, FALSE>>},
        n \in UNION {Texts(f, NumberPool, ExpectedNumbers) : f \in Formats},
        s \in UNION {Texts(f, StarPool, ExpectedStars) : f \in Formats}}

Init ==
    /\ pc = "env"
    /\ environ \in Environs
    /\ my_numbers = <<>> /\ my_stars = <<>> /\ draw = NoDraw
    /\ matched = <<0, 0>> /\ prize = <<0, 0>> /\ message = <<>> /\ printed = <<>>
    /\ sent = FALSE
    /\ IdleFn /\ IdleTicket

Next ==
    \/ CheckEnv
    \/ ParseCombination
    \/ ValidateCombination
    \/ FetchLatestDraw
    \/ CalculateMatches
    \/ FindPrize
    \/ FormatMessage
    \/ SendTelegramMessage

Spec == Init /\ [][Next]_vars

-----------------------------------------------------------------------------
(* Claims on the draw-check run, checked under Spec.                       *)

\* how many values a configured text holds
ConfiguredCount(text) == IF text = <<>> THEN 0 ELSE Len(Split(text, ","))

BadCombination ==
    \/ ConfiguredCount(environ.MY_NUMBERS) # 5
    \/ ConfiguredCount(environ.MY_STARS) # 2

\* C4: a combination without exactly 5 numbers and exactly 2 stars ends the
\* run with a reported fatal error before any draw is fetched and before any
\* message is sent, and the parsed lists are never cut or padded to 5 and 2.
C4_BadCombinationIsFatal ==
    BadCombination =>
        /\ pc \in {"env", "parse", "validate", "exit"}
        /\ draw = NoDraw /\ message = <<>> /\ ~sent
        /\ pc \in {"env", "parse"} => my_numbers = <<>> /\ my_stars = <<>>
        /\ pc = "validate" =>
               /\ Len(my_numbers) = ConfiguredCount(environ.MY_NUMBERS)
               /\ Len(my_stars) = ConfiguredCount(environ.MY_STARS)
        /\ pc = "exit" =>
               \/ printed = <<"Error: Missing required environment variables">>
                  /\ my_numbers = <<>> /\ my_stars = <<>>
               \/ printed = <<"ValueError: invalid literal for int() with base 10">>
                  /\ my_numbers = <<>> /\ my_stars = <<>>
               \/ /\ Len(my_numbers) = ConfiguredCount(environ.MY_NUMBERS)
                  /\ Len(my_stars) = ConfiguredCount(environ.MY_STARS)
                  /\ printed =
                        IF Len(my_numbers) # 5
                        THEN <<"Error: Expected 5 numbers, got ">> \o StrOf(Len(my_numbers))
                        ELSE <<"Error: Expected 2 stars, got ">> \o StrOf(Len(my_stars))

\* six numbers are configured: the run ends reporting the count it got
C4_Witness ==
    /\ pc = "exit"
    /\ Len(my_numbers) = 6
    /\ printed = <<"Error: Expected 5 numbers, got ", "6">>
    /\ draw = NoDraw /\ ~sent

\* the values a list of number strings denotes
Values(strs) == {IntOf(strs[i]) : i \in 1..Len(strs)}

\* the chosen values as the message would show them when a chosen value wins
\* iff it is numerically equal to a winning value
ShownByValue(mine, winning) ==
    [i \in 1..Len(mine) |->
        IF IntOf(mine[i]) \in Values(winning)
        THEN <<"[">> \o mine[i] \o <<"]">> ELSE mine[i]]

\* C9: whichever way the values are configured ("7" or "07"), the run counts,
\* and shows in brackets, every chosen value that is numerically equal to a
\* winning value of the draw, the values 1 to 9 included.
C9_CountsEveryEqualValue ==
    /\ pc \in {"prize", "format", "send", "done"} =>
           /\ matched[1] = Cardinality(Values(Split(environ.MY_NUMBERS, ","))
                                       \cap Values(draw.numbers))
           /\ matched[2] = Cardinality(Values(Split(environ.MY_STARS, ","))
                                       \cap Values(draw.stars))
    /\ pc \in {"send", "done"} =>
           /\ LinesOf(message)[8] = <<"   Numbers: ">>
                  \o Join(ShownByValue(my_numbers, draw.numbers), <<" - ">>)
           /\ LinesOf(message)[9] = <<"   Stars: ">>
                  \o Join(ShownByValue(my_stars, draw.stars), <<" - ">>)

-----------------------------------------------------------------------------
(* send_ticket_image.py: the document.                                     *)
(*                                                                         *)
(* html_content is a sequence of tokens.  A token is a stretch of the      *)
(* document that one of the patterns of extract_ticket_data can match as a *)
(* whole, or plain text that none matches:                                 *)
(*   styled       <td style="...width:30px...">NN</td>                     *)
(*   cell         <td>NN</td>                                              *)
(*   plus         <td>+</td>                                               *)
(*   balance_tag  saldo actual es: <b>12,50 (euro sign)                    *)
(*   balance      saldo actual es: 3,00 (euro sign)                        *)
(*   code         ABC12345                                                 *)
(*   gif          game_millon_ticket.gif                                   *)
(*   pdate        <p>23 ENE 26</p>                                         *)
(*   date         23 ENE 2026                                              *)
(*   range        27 ENE 2026 - 30 ENE 2026                                *)
(*   price        2,50 EUR                                                 *)
(*   bet          2 apuestas                                               *)
(*   ref          12345-1234-12345-12345-12345-12345-12345                 *)
(*   text         anything else                                            *)
(* upper tells whether the letters of the stretch are written in upper     *)
(* case (TRUE) or in lower case (FALSE); val is what group(1) captures,    *)
(* written in upper case.                                                  *)
(***************************************************************************)

Tok(kind, upper, val) == [kind |-> kind, upper |-> upper, val |-> val]

LowerChunk(c) ==
    CASE c = "ABC12345" -> "abc12345"
      [] c = "23 ENE 26" -> "23 ene 26"
      [] c = "23 ENE 2026" -> "23 ene 2026"
      [] c = "27 ENE 2026" -> "27 ene 2026"
      [] c = "30 ENE 2026" -> "30 ene 2026"
      [] OTHER -> c

\* the text a token's group(1) holds, in the case the document writes it
Group1(t) == IF t.upper THEN t.val ELSE [i \in 1..Len(t.val) |-> LowerChunk(t.val[i])]

\* the document with the case of every letter changed
SwapCase(html) == [i \in 1..Len(html) |-> [html[i] EXCEPT !.upper = ~html[i].upper]]

\* A pattern: the kinds of token it matches as a whole, whether it is compiled
\* with re.IGNORECASE, and the letters it asks for: "upper", "lower" or, for a
\* pattern of digits and punctuation only, "none".
Pattern(kinds, ignorecase, letters) ==
    [kinds |-> kinds, ignorecase |-> ignorecase, letters |-> letters]

Matches(pattern, t) ==
    /\ t.kind \in pattern.kinds
    /\ \/ pattern.ignorecase
       \/ pattern.letters = "none"
       \/ t.upper = (pattern.letters = "upper")

\* re.search(pattern, html): the index of the first token the pattern
\* matches, 0 for None
Search(html, pattern) ==
    IF \E i \in 1..Len(html) : Matches(pattern, html[i])
    THEN CHOOSE i \in 1..Len(html) :
             Matches(pattern, html[i]) /\ \A j \in 1..(i - 1) : ~Matches(pattern, html[j])
    ELSE 0

\* pattern.findall(html): the captured texts of the matching tokens, in order
FindAll(html, pattern) ==
    LET found == SelectSeq(html, LAMBDA t : Matches(pattern, t))
    IN  [i \in 1..Len(found) |-> Group1(found[i])]

\* what a raised exception leaves instead of a value
Raised == <<"Traceback", "raised">>

\* match.group(1); on None it raises AttributeError
Group(html, m) == IF m = 0 THEN Raised ELSE Group1(html[m])

\* line 72: saldo actual es[:\s]*<[^>]*>\s*([\d,]+)\s*(euro), IGNORECASE
balance_pattern_tagged == Pattern({"balance_tag"}, TRUE, "lower")

\* line 76: saldo actual es[:\s]*([\d,]+)\s*(euro), IGNORECASE
balance_pattern == Pattern({"balance"}, TRUE, "lower")

\* lines 83-86: <td[^>]*style="[^"]*width:\s*30px[^"]*"[^>]*>\s*(\d{2})\s*</td>,
\* IGNORECASE | DOTALL
number_pattern == Pattern({"styled"}, TRUE, "lower")

\* line 89: <td[^>]*>\s*\+\s*</td>, IGNORECASE | DOTALL
plus_pattern == Pattern({"plus"}, TRUE, "lower")

\* line 104: <td[^>]*>\s*(\d{2})\s*</td>, IGNORECASE | DOTALL
simple_pattern == Pattern({"styled", "cell"}, TRUE, "lower")

\* line 113: ([A-Z]{3}\d{5}), no flags
millon_pattern == Pattern({"code"}, FALSE, "upper")

\* lines 118-122: game_millon_ticket\.gif.*? ..., DOTALL | IGNORECASE
gif_pattern == Pattern({"gif"}, TRUE, "lower")

\* lines 118-122: ... <p[^>]*>\s*(\d{1,2}\s+[A-Z]{3}\s+\d{2}(...)?)\s*</p>,
\* DOTALL | IGNORECASE
paragraph_pattern == Pattern({"pdate"}, TRUE, "upper")

\* lines 127-130: (\d{1,2}\s+[A-Z]{3}\s+\d{4}(?:\s*-\s*...)?), no flags
draw_date_pattern == Pattern({"date", "range"}, FALSE, "upper")

\* line 135: ([\d,]+)\s*EUR, no flags
price_pattern == Pattern({"price"}, FALSE, "upper")

\* (\d+)\s*apuesta compiled without re.IGNORECASE
bet_pattern_cased == Pattern({"bet"}, FALSE, "lower")

\* line 140: (\d+)\s*apuesta, IGNORECASE
bet_pattern == Pattern({"bet"}, TRUE, "lower")

\* line 145: (\d{5}-\d{4}-\d{5}-\d{5}-\d{5}-\d{5}-\d{5}), no flags; no letters
ref_pattern == Pattern({"ref"}, FALSE, "none")

-----------------------------------------------------------------------------
(* send_ticket_image.py: extract_ticket_data.                              *)

\* an optional value of a text that may be a raised exception
Opt(x) == IF x = Raised THEN Raised ELSE Some(x)

\* x + y of a text that may be a raised exception
Cat(x, y) == IF x = Raised THEN Raised ELSE x \o y

\* s[:n]
TakeFirst(s, n) == SubSeq(s, 1, IF Len(s) < n THEN Len(s) ELSE n)

\* the first n where the last n are meant
TakeLast_fromStart(s, n) == SubSeq(s, 1, IF Len(s) < n THEN Len(s) ELSE n)

\* s[-n:]
TakeLast(s, n) == SubSeq(s, IF Len(s) < n THEN 1 ELSE Len(s) - n + 1, Len(s))

\* lines 72-78: the tagged pattern first, the plain one second
ExtractBalance(html) ==
    LET tagged == Search(html, balance_pattern_tagged)
        plain == Search(html, balance_pattern)
    IN  IF tagged # 0 THEN Opt(Cat(Group(html, tagged), <<"(euro)">>))
        ELSE IF plain # 0 THEN Opt(Cat(Group(html, plain), <<"(euro)">>))
        ELSE None

\* lines 89-99: the cells before and after the first separator
ExtractStructural(html) ==
    LET plus_match == Search(html, plus_pattern)
        plus_pos == plus_match
        before_plus == SubSeq(html, 1, plus_pos - 1)
        after_plus == SubSeq(html, plus_pos, Len(html))
        numbers_before == FindAll(before_plus, number_pattern)
        numbers_after == FindAll(after_plus, number_pattern)
    IN  IF plus_match # 0
        THEN [numbers |-> IF Len(numbers_before) >= 5 THEN TakeLast(numbers_before, 5)
                          ELSE numbers_before,
              stars |-> IF Len(numbers_after) >= 2 THEN TakeFirst(numbers_after, 2)
                        ELSE numbers_after]
        ELSE [numbers |-> <<>>, stars |-> <<>>]

\* the fallback also when only the stars are missing
NeedsFallback_either(found) == found.numbers = <<>> \/ found.stars = <<>>

\* line 102: if not data["numbers"]
NeedsFallback(found) == found.numbers = <<>>

\* line 107: 1 <= int(n) <= 50
Plausible(n) == 1 <= IntOf(n) /\ IntOf(n) <= 50

\* lines 102-110: every two-digit cell of the document, filtered; int() raises
\* ValueError on a text that is no number
ExtractFallback(html, found) ==
    LET all_numbers == FindAll(html, simple_pattern)
        lottery_numbers == SelectSeq(all_numbers, LAMBDA n : Plausible(n))
    IN  IF ~NeedsFallback(found) THEN [raised |-> FALSE, cells |-> found]
        ELSE IF \E i \in 1..Len(all_numbers) : ~ValidInt(all_numbers[i])
        THEN [raised |-> TRUE, cells |-> found]
        ELSE IF Len(lottery_numbers) >= 7
        THEN [raised |-> FALSE,
              cells |-> [numbers |-> SubSeq(lottery_numbers, 1, 5),
                         stars |-> SubSeq(lottery_numbers, 6, 7)]]
        ELSE [raised |-> FALSE, cells |-> found]

\* lines 113-115
ExtractMillonCode(html) ==
    LET millon_match == Search(html, millon_pattern)
    IN  IF millon_match # 0 THEN Opt(Group(html, millon_match)) ELSE None

\* lines 118-124: the first date paragraph after the first marker image
ExtractMillonDate(html) ==
    LET gif == Search(html, gif_pattern)
        rest == SubSeq(html, gif + 1, Len(html))
        millon_date_match == IF gif = 0 THEN 0 ELSE Search(rest, paragraph_pattern)
    IN  IF millon_date_match # 0 THEN Opt(Group(rest, millon_date_match)) ELSE None

\* lines 127-132
ExtractDrawDate(html) ==
    LET draw_date_match == Search(html, draw_date_pattern)
    IN  IF draw_date_match # 0 THEN Opt(Group(html, draw_date_match)) ELSE None

\* lines 135-137
ExtractPrice(html) ==
    LET price_match == Search(html, price_pattern)
    IN  IF price_match # 0 THEN Opt(Cat(Group(html, price_match), <<" EUR">>)) ELSE None

\* the group read without looking whether the pattern matched
ExtractBetCount_unguarded(html) == Group(html, Search(html, bet_pattern))

\* lines 140-142: the default "1" stays when the pattern does not match
ExtractBetCount(html) ==
    LET bet_match == Search(html, bet_pattern)
    IN  IF bet_match # 0 THEN Group(html, bet_match) ELSE <<"1">>

\* lines 145-147
ExtractReference(html) ==
    LET ref_match == Search(html, ref_pattern)
    IN  IF ref_match # 0 THEN Opt(Group(html, ref_match)) ELSE None

\* extract_ticket_data(html_content): the dict it returns, or that it raised
extract_ticket_data(html) ==
    LET balance == ExtractBalance(html)
        cells == ExtractFallback(html, ExtractStructural(html))
        millon_code == ExtractMillonCode(html)
        millon_date == ExtractMillonDate(html)
        draw_date == ExtractDrawDate(html)
        price == ExtractPrice(html)
        bet_count == ExtractBetCount(html)
        reference == ExtractReference(html)
    IN  [raised |-> \/ cells.raised
                    \/ Raised \in {balance, millon_code, millon_date, draw_date, price,
                                   bet_count, reference},
         data |-> [numbers |-> cells.cells.numbers,
                   stars |-> cells.cells.stars,
                   millon_code |-> millon_code,
                   millon_date |-> millon_date,
                   draw_date |-> draw_date,
                   price |-> price,
                   bet_count |-> bet_count,
                   balance |-> balance,
                   reference |-> reference]]

-----------------------------------------------------------------------------
(* send_ticket_image.py: format_ticket_message.                            *)

\* the missing value shown as Python shows None
OrNA_none(x) == IF x = None THEN <<"None">> ELSE x[1]

\* x or 'N/A', for an optional text
OrNA(x) == IF x = None \/ x = Some(<<>>) THEN <<"N/A">> ELSE x[1]

\* " - ".join(values) if values else "N/A"
JoinOrNA(values) == IF values = <<>> THEN <<"N/A">> ELSE Join(values, <<" - ">>)

Separator == <<"------------------------">>

\* format_ticket_message(data): the list `lines`
ticket_lines(d) ==
    LET numbers_str == JoinOrNA(d.numbers)
        stars_str == JoinOrNA(d.stars)
        draw_date == OrNA(d.draw_date)
        millon_date == OrNA(d.millon_date)
        sorteo_label == IF \E i \in 1..Len(draw_date) : draw_date[i] = " - "
                        THEN "Sorteos" ELSE "Sorteo"
    IN  << <<"*EUROMILLONES - Resguardo*">>,
           Separator,
           <<>>,
           <<"*Tu combinacion:*">>,
           <<"   Numeros: ">> \o numbers_str,
           <<"   Estrellas: ">> \o stars_str,
           <<>>,
           Separator,
           <<>>,
           <<"*EL MILLON*">>,
           <<"   Codigo: ">> \o OrNA(d.millon_code),
           <<"   Fecha: ">> \o millon_date,
           <<>>,
           Separator,
           <<>>,
           <<sorteo_label, ": ">> \o draw_date,
           <<"Importe: ">> \o OrNA(d.price),
           <<"Apuestas: ">> \o d.bet_count,
           <<>>,
           Separator,
           <<>>,
           <<"*Saldo disponible:* ">> \o OrNA(d.balance),
           <<>>,
           <<"Ref: ">> \o OrNA(d.reference) >>

\* format_ticket_message(data): "\n".join(lines)
format_ticket_message(d) == Join(ticket_lines(d), <<"\n">>)

-----------------------------------------------------------------------------
(* send_ticket_image.py: the documents of the model and the run from the   *)
(* document to the message (main(), lines 235 and 246).                    *)

\* a run of n cells of one kind; "out" is a cell whose value is out of 1..50
Blocks ==
    {[kind |-> k, n |-> n] : k \in {"styled", "cell"}, n \in {1, 2, MaxRun}}
    \cup {[kind |-> "out", n |-> 1], [kind |-> "plus", n |-> 1]}

RECURSIVE Expand(_)
Expand(layout) ==
    IF layout = <<>> THEN <<>>
    ELSE [i \in 1..Head(layout).n |-> Head(layout).kind] \o Expand(Tail(layout))

\* the cell at position i holds the number i, so every cell is told apart
CellToken(kind, i) ==
    CASE kind = "plus" -> Tok("plus", FALSE, <<"+">>)
      [] kind = "out" -> Tok("cell", FALSE, IF i % 2 = 0 THEN <<"0", "0">>
                                            ELSE TwoDigits(50 + i))
      [] OTHER -> Tok(kind, FALSE, TwoDigits(i))

CellDocs ==
    {[i \in 1..Len(Expand(l)) |-> CellToken(Expand(l)[i], i)] :
        l \in SeqsUpTo(Blocks, MaxBlocks)}

FieldTokens ==
    UNION {{Tok("balance_tag", u, <<"12,50">>),
            Tok("balance", u, <<"3,00">>),
            Tok("code", u, <<"ABC12345">>),
            Tok("gif", u, <<>>),
            Tok("pdate", u, <<"23 ENE 26">>),
            Tok("date", u, <<"23 ENE 2026">>),
            Tok("range", u, <<"27 ENE 2026", " - ", "30 ENE 2026">>),
            Tok("price", u, <<"2,50">>),
            Tok("bet", u, <<"2">>),
            Tok("styled", u, <<"0", "7">>),
            Tok("plus", u, <<"+">>)} : u \in BOOLEAN}
    \cup {Tok("ref", FALSE, <<"12345-1234-12345-12345-12345-12345-12345">>),
          Tok("text", FALSE, <<>>)}

FieldDocs == SeqsUpTo(FieldTokens, MaxFields)

Slots == {"balance", "cells", "code", "millon_date", "draw_date", "price", "bet", "ref"}

\* a whole confirmation e-mail, with the parts of `keep`
Ticket(u, ranged, keep) ==
    LET part(slot, toks) == IF slot \in keep THEN toks ELSE <<>>
        styled(v) == Tok("styled", u, TwoDigits(v))
    IN  part("balance", <<Tok("balance_tag", u, <<"12,50">>)>>)
        \o part("cells", <<styled(3), styled(7), styled(12), styled(19), styled(41),
                           Tok("plus", u, <<"+">>), styled(2), styled(11)>>)
        \o <<Tok("gif", u, <<>>)>>
        \o part("code", <<Tok("code", u, <<"ABC12345">>)>>)
        \o part("millon_date", <<Tok("pdate", u, <<"23 ENE 26">>)>>)
        \o part("draw_date",
                IF ranged
                THEN <<Tok("range", u, <<"27 ENE 2026", " - ", "30 ENE 2026">>)>>
                ELSE <<Tok("date", u, <<"23 ENE 2026">>)>>)
        \o part("price", <<Tok("price", u, <<"2,50">>)>>)
        \o part("bet", <<Tok("bet", u, <<"2">>)>>)
        \o part("ref", <<Tok("ref", FALSE, <<"12345-1234-12345-12345-12345-12345-12345">>)>>)

TicketDocs == {Ticket(u, r, k) : u \in BOOLEAN, r \in BOOLEAN, k \in SUBSET Slots}

Docs == CellDocs \cup FieldDocs \cup TicketDocs

InitTicket ==
    /\ pc = "html"
    /\ html_content \in Docs
    /\ data = NoData
    /\ IdleRun /\ IdleFn

\* line 235: ticket_data = extract_ticket_data(html_content)
ExtractTicketData ==
    /\ pc = "html"
    /\ LET r == extract_ticket_data(html_content)
       IN  IF r.raised
           THEN pc' = "exit" /\ printed' = Raised /\ UNCHANGED data
           ELSE pc' = "extracted" /\ data' = r.data /\ UNCHANGED printed
    /\ UNCHANGED <<environ, my_numbers, my_stars, draw, matched, prize, message, sent,
                   call, result, html_content>>

\* line 246: message = format_ticket_message(ticket_data)
FormatTicketMessage ==
    /\ pc = "extracted"
    /\ message' = format_ticket_message(data)
    /\ pc' = "formatted"
    /\ UNCHANGED <<environ, my_numbers, my_stars, draw, matched, prize, printed, sent,
                   call, result, html_content, data>>

NextTicket == ExtractTicketData \/ FormatTicketMessage

SpecTicket == InitTicket /\ [][NextTicket]_vars

-----------------------------------------------------------------------------
(* Claims on the ticket extraction and the ticket message, checked under   *)
(* SpecTicket.  The definitions below read the document directly, by       *)
(* token positions, and not through the operators of extract_ticket_data.  *)

Extracted == pc \in {"extracted", "formatted"}

Positions == 1..Len(html_content)

KindAt(i) == html_content[i].kind

HasPlus == \E i \in Positions : KindAt(i) = "plus"

\* the first separator cell
FirstPlus == CHOOSE i \in Positions : KindAt(i) = "plus" /\ \A j \in 1..(i - 1) : KindAt(j) # "plus"

StyledBefore == {i \in Positions : KindAt(i) = "styled" /\ i < FirstPlus}

StyledAfter == {i \in Positions : KindAt(i) = "styled" /\ i > FirstPlus}

\* the two-digit cells, styled or not, whose value lies in 1..50
PlausibleCells ==
    {i \in Positions : /\ KindAt(i) \in {"styled", "cell"}
                       /\ IntOf(html_content[i].val) \in 1..50}

FirstOf(I, n) == {i \in I : Cardinality({j \in I : j < i}) < n}

LastOf(I, n) == {i \in I : Cardinality({j \in I : j > i}) < n}

\* the values of the cells at the positions I, in document order
ValuesAt(I) == [k \in 1..Cardinality(I) |-> html_content[Sorted(I)[k]].val]

StructuralNumbers == IF HasPlus THEN ValuesAt(LastOf(StyledBefore, 5)) ELSE <<>>

StructuralStars == IF HasPlus THEN ValuesAt(FirstOf(StyledAfter, 2)) ELSE <<>>

FallbackFinds == Cardinality(PlausibleCells) >= 7

FallbackNumbers == ValuesAt(FirstOf(PlausibleCells, 5))

FallbackStars == ValuesAt(FirstOf(PlausibleCells, 7) \ FirstOf(PlausibleCells, 5))

Holds(kinds) == \E i \in Positions : KindAt(i) \in kinds

HoldsUpper(kinds) == \E i \in Positions : KindAt(i) \in kinds /\ html_content[i].upper

\* C3: extract_ticket_data never raises, whatever the document (the empty one
\* included); a field is absent exactly when the document holds nothing its
\* pattern matches, whatever the other fields find (numbers and stars empty,
\* the optional fields None, the bet count "1").
C3_ExtractNeverRaises ==
    /\ pc # "exit"
    /\ Extracted =>
        /\ data.balance = None <=> ~Holds({"balance_tag", "balance"})
        /\ data.millon_code = None <=> ~HoldsUpper({"code"})
        /\ data.millon_date = None <=>
               ~\E i \in Positions : \E j \in Positions :
                    i < j /\ KindAt(i) = "gif" /\ KindAt(j) = "pdate"
        /\ data.draw_date = None <=> ~HoldsUpper({"date", "range"})
        /\ data.price = None <=> ~HoldsUpper({"price"})
        /\ data.bet_count = <<"1">> <=> ~Holds({"bet"})
        /\ data.reference = None <=> ~Holds({"ref"})
        /\ data.numbers = <<>> <=>
               ~((HasPlus /\ StyledBefore # {}) \/ FallbackFinds)
        /\ ~Holds({"styled", "cell"}) => data.stars = <<>>
        /\ html_content = <<>> => data = NoData

\* a document in which the bet count and the reference are found and the
\* balance, the numbers and the draw date are not
C3_Witness ==
    /\ pc = "extracted"
    /\ data.bet_count = <<"2">> /\ data.reference # None
    /\ data.balance = None /\ data.numbers = <<>> /\ data.draw_date = None

\* C5 as stated: whenever the document holds a separator cell, the numbers
\* are the last 5 styled cells before it and the stars the first 2 after it.
C5_SeparatorAlwaysDecides ==
    (Extracted /\ HasPlus) =>
        /\ data.numbers = ValuesAt(LastOf(StyledBefore, 5))
        /\ data.stars = ValuesAt(FirstOf(StyledAfter, 2))

\* C5, amended: when the document holds a separator cell and either a styled
\* cell before the first separator or fewer than 7 plausible two-digit cells,
\* the numbers are the last 5 styled cells before the separator and the stars
\* the first 2 styled cells after it, in document order; with no styled cell
\* before it and 7 plausible cells or more, the fallback decides both.
C5_SeparatorDecides ==
    (Extracted /\ HasPlus) =>
        IF StyledBefore # {} \/ ~FallbackFinds
        THEN /\ data.numbers = ValuesAt(LastOf(StyledBefore, 5))
             /\ data.stars = ValuesAt(FirstOf(StyledAfter, 2))
        ELSE /\ data.numbers = FallbackNumbers
             /\ data.stars = FallbackStars

\* a separator with exactly 5 styled cells before it and 2 after it
C5_Witness ==
    /\ pc = "extracted" /\ HasPlus
    /\ Cardinality(StyledBefore) = 5 /\ Cardinality(StyledAfter) = 2
    /\ Len(data.numbers) = 5 /\ Len(data.stars) = 2
    /\ data.numbers[1] = html_content[Sorted(StyledBefore)[1]].val
    /\ data.stars[2] = html_content[Sorted(StyledAfter)[2]].val

\* C10: the fallback decides only when the structural strategy found no
\* numbers, and the record holds the numbers and the stars of one strategy:
\* both structural, or both from the fallback.
C10_OneStrategy ==
    Extracted =>
        /\ StructuralNumbers # <<>> =>
               data.numbers = StructuralNumbers /\ data.stars = StructuralStars
        /\ \/ data.numbers = StructuralNumbers /\ data.stars = StructuralStars
           \/ /\ StructuralNumbers = <<>> /\ FallbackFinds
              /\ data.numbers = FallbackNumbers /\ data.stars = FallbackStars

\* the structural strategy found stars and no numbers, the fallback found
\* both: the record holds the fallback's stars, not the structural ones
C10_Witness ==
    /\ pc = "extracted"
    /\ StructuralNumbers = <<>> /\ StructuralStars # <<>> /\ FallbackFinds
    /\ data.numbers = FallbackNumbers /\ data.stars = FallbackStars
    /\ data.stars # StructuralStars

\* which fields a record holds
Present(d) ==
    [balance |-> d.balance # None, numbers |-> d.numbers # <<>>,
     stars |-> d.stars # <<>>, millon_code |-> d.millon_code # None,
     millon_date |-> d.millon_date # None, draw_date |-> d.draw_date # None,
     price |-> d.price # None, bet_count |-> d.bet_count # <<"1">>,
     reference |-> d.reference # None]

\* what is extracted from the document written in the other case
Swapped == extract_ticket_data(SwapCase(html_content)).data

\* C8 as stated: for every field, changing the case of the document does not
\* change whether the field is extracted.
C8_EveryPatternIgnoresCase == Extracted => Present(Swapped) = Present(data)

\* C8, amended: the patterns of the balance, the numbers and stars, the
\* secondary-game date and the bet count ignore case (the reference holds no
\* letter); the patterns of the secondary-game code, the draw date and the
\* price match upper-case letters only.
C8_WhichPatternsIgnoreCase ==
    Extracted =>
        /\ \A f \in {"balance", "numbers", "stars", "millon_date", "bet_count",
                     "reference"} : Present(Swapped)[f] = Present(data)[f]
        /\ Swapped.balance = data.balance /\ Swapped.bet_count = data.bet_count
        /\ Swapped.numbers = data.numbers /\ Swapped.stars = data.stars
        /\ data.millon_code # None <=> HoldsUpper({"code"})
        /\ data.draw_date # None <=> HoldsUpper({"date", "range"})
        /\ data.price # None <=> HoldsUpper({"price"})
        /\ data.millon_code # None => data.millon_code = Some(<<"ABC12345">>)
        /\ data.draw_date # None =>
               data.draw_date \in {Some(<<"23 ENE 2026">>),
                                   Some(<<"27 ENE 2026", " - ", "30 ENE 2026">>)}

\* the bet count and the balance found in a document that writes them in
\* upper case only
C8_Witness ==
    /\ pc = "extracted"
    /\ \A i \in Positions : html_content[i].upper \/ KindAt(i) \in {"ref", "text"}
    /\ Holds({"bet"}) /\ Holds({"balance"})
    /\ data.bet_count = <<"2">> /\ data.balance = Some(<<"3,00", "(euro)">>)

AllPresent(d) ==
    /\ d.numbers # <<>> /\ d.stars # <<>>
    /\ \A f \in {"millon_code", "millon_date", "draw_date", "price", "balance",
                 "reference"} : d[f] # None

\* the message of the record of a document in which no pattern matches
AbsentLines == LinesOf(format_ticket_message(NoData))

IsPrefix(p, t) == Len(p) <= Len(t) /\ SubSeq(t, 1, Len(p)) = p

\* the line of the absent record is the line of the full one with "N/A" in
\* the place of the value
OnlyValueDiffers(full, absent) ==
    \/ full = absent
    \/ /\ absent # <<>> /\ absent[Len(absent)] = "N/A"
       /\ Len(absent) >= 2
       /\ IsPrefix(SubSeq(absent, 1, Len(absent) - 1), full)

\* C7 as stated: the message of a record with every field present and the
\* message of the record with every field absent have the same lines but for
\* the values, every absent value being "N/A".
C7_OnlyValuesDiffer ==
    (pc = "formatted" /\ AllPresent(data)) =>
        /\ Len(LinesOf(message)) = Len(AbsentLines)
        /\ \A i \in 1..Len(AbsentLines) :
               OnlyValueDiffers(LinesOf(message)[i], AbsentLines[i])

\* C7, amended: the same, but for two lines: the label of the draw-date line
\* is "Sorteos" when the draw date holds " - " and "Sorteo" otherwise (so also
\* when it is absent), and the absent bet count is shown as its default "1".
C7_OnlyValuesAndDateLabelDiffer ==
    (pc = "formatted" /\ AllPresent(data)) =>
        LET full == LinesOf(message)
            ranged == \E i \in 1..Len(data.draw_date[1]) : data.draw_date[1][i] = " - "
        IN  /\ Len(full) = Len(AbsentLines)
            /\ \A i \in 1..Len(AbsentLines) :
                   IF i = 16
                   THEN /\ AbsentLines[i] = <<"Sorteo", ": ", "N/A">>
                        /\ full[i] = <<IF ranged THEN "Sorteos" ELSE "Sorteo", ": ">>
                                     \o data.draw_date[1]
                   ELSE IF i = 18
                   THEN /\ AbsentLines[i] = <<"Apuestas: ", "1">>
                        /\ full[i] = <<"Apuestas: ">> \o data.bet_count
                   ELSE OnlyValueDiffers(full[i], AbsentLines[i])

\* a full record whose draw date is a range: the label is the plural one
C7_Witness ==
    /\ pc = "formatted" /\ AllPresent(data)
    /\ data.draw_date = Some(<<"27 ENE 2026", " - ", "30 ENE 2026">>)
    /\ LinesOf(message)[16][1] = "Sorteos"
    /\ LinesOf(message)[11] = <<"   Codigo: ", "ABC12345">>

====
